---- MODULE Spec2Model ----
(***************************************************************************)
(* Model of app/utils/gitmastery.py: ExercisesRepo (a sparse, shallow      *)
(* clone living in a temporary directory) and Namespace (a fetched script  *)
(* executed into a fresh dictionary, with the exercise_utils helper        *)
(* package fetched next to it), as used by one long-lived process.         *)
(***************************************************************************)
EXTENDS Integers, Sequences, FiniteSets, TLC

VARIABLES
    scope,              \* position of the caller's `with ExercisesRepo()` block
    repoSet,            \* ExercisesRepo.__repo is not None
    tempDir,            \* ExercisesRepo.__temp_dir: "None", "live", "cleaned"
    dirExists,          \* the temporary working directory is on disk
    remote,             \* files of the commit the clone in the directory holds
    sparse,             \* the clone's sparse-checkout pattern
    worktree,           \* files materialized in the working directory
    prior,              \* the sparse-checkout pattern before the last checkout
    localFile,          \* content of the download destination, or "absent"
    registry,           \* sys.modules: set of [name, gen]
    sysPath,            \* sys.path
    dontWriteBytecode,  \* sys.dont_write_bytecode
    pc,                 \* position inside load_file_as_namespace, or "idle"
    loadPath,           \* file_path argument of the load in progress
    loads,              \* number of loads started in this process
    helperIdx,          \* index in EXERCISE_UTILS_FILES of the next helper to fetch
    tmpdir,             \* the load's TemporaryDirectory is on disk
    package,            \* helper files written to tmpdir/exercise_utils
    building,           \* the dictionary handed to exec(): set of [name, gen]
    imported,           \* helper modules the running script has imported
    execRaised,         \* the script's top-level code raised
    ns,                 \* Namespace.namespace of the caller's instance, or "None"
    log,                \* steps of the load in progress, in order
    ret,                \* outcome of the last operation
    cwd,                \* os.getcwd() of the process, as path components
    loop,               \* GitMasteryREPL.cmdloop: "running", or how it ended
    prompt,             \* GitMasteryREPL.prompt, by the directory name it shows
    lastcmd             \* the line the REPL handled last and what became of it

vars == <<scope, repoSet, tempDir, dirExists, remote, sparse, worktree, prior, localFile,
          registry, sysPath, dontWriteBytecode, pc, loadPath, loads, helperIdx,
          tmpdir, package, building, imported, execRaised, ns, log, ret,
          cwd, loop, prompt, lastcmd>>

fetcherVars == <<scope, repoSet, tempDir, dirExists, remote>>
treeVars == <<sparse, worktree, prior>>
processVars == <<registry, sysPath, dontWriteBytecode>>
loadVars == <<pc, loadPath, loads, helperIdx, tmpdir, package, building, imported,
              execRaised, log>>
replVars == <<cwd, loop, prompt, lastcmd>>
appVars == <<fetcherVars, treeVars, localFile, processVars, loadVars, ns, ret>>

(* ------------------------------ bounds -------------------------------- *)

\* loads one process performs
MaxLoads == 3

(* --------------------------- program data ----------------------------- *)

EXERCISE_UTILS_FILES ==
    <<"__init__", "cli", "git", "file", "gitmastery", "github_cli", "test">>

\* f"exercise_utils/{filename}.py"
HelperPath(filename) == <<"exercise_utils", filename>>

HelperPaths == {HelperPath(EXERCISE_UTILS_FILES[i]) : i \in 1..Len(EXERCISE_UTILS_FILES)}

\* script paths the callers load
ScriptPaths == {<<"exercise_a", "download">>, <<"exercise_b", "download">>}

Paths == ScriptPaths \cup HelperPaths

\* commits the remote may be at: any set of scripts, with the helper package
\* complete or lacking its first or its last file
RemoteRepos ==
    {s \cup h : s \in SUBSET ScriptPaths,
                h \in {HelperPaths,
                       HelperPaths \ {HelperPath(EXERCISE_UTILS_FILES[1])},
                       HelperPaths \ {HelperPath(EXERCISE_UTILS_FILES[Len(EXERCISE_UTILS_FILES)])}}}

\* module names are dotted; a name is the sequence of its components
HelperModuleNames == {<<"exercise_utils">>, <<"exercise_utils", "git">>}

\* key == "exercise_utils" or key.startswith("exercise_utils.")
IsHelperModule(key) == key[1] = "exercise_utils"


(* ------------------------- ExercisesRepo ------------------------------ *)

Outcome(op, arg, raised, value) ==
    [op |-> op, arg |-> arg, raised |-> raised, value |-> value]

\* the `repo` property asserts __repo is not None; git runs in the working directory
RepoUsable == repoSet /\ dirExists

\* what `sparse-checkout add` would leave: the old pattern and the path
SparseCheckoutAdd(pattern, path) == pattern \cup {path}

\* git sparse-checkout set --skip-checks <file_path>: the new pattern
SparseCheckoutSet(pattern, path) == {path}

\* the files of the cloned commit that a pattern selects
Materialize(pattern) == remote \cap pattern

\* ExercisesRepo.checkout, as a step of the operation that calls it
DoCheckout(path) ==
    /\ sparse' = SparseCheckoutSet(sparse, path)
    /\ worktree' = Materialize(sparse')
    /\ prior' = sparse

\* a test of the working directory itself, which is always there
PathExistsAlways(tree, path) == TRUE

\* os.path.exists(Path(self.repo.working_dir) / file_path)
PathExists(tree, path) == path \in tree

\* a read that answers for a file that is not there
CanOpenAlways(tree, path) == TRUE

\* open(Path(self.repo.working_dir) / file_path, mode) raises
\* FileNotFoundError unless the file is in the working directory
CanOpen(tree, path) == path \in tree

\* open(Path(working_dir) / file_path, mode).read()
FileContents(path, is_binary) == <<IF is_binary THEN "bytes" ELSE "str", path>>

\* __exit__ without its test: cleanup() is called whatever __temp_dir is
ExitGuardAlways(td) == TRUE

\* the test of __exit__ before it calls cleanup()
ExitGuard(td) == td # "None"

\* ExercisesRepo.__init__, on a new instance; the instance it replaces is
\* dropped, and a TemporaryDirectory never cleaned up removes its directory
\* when it is finalized
NewFetcher ==
    /\ pc = "idle"
    /\ UNCHANGED replVars
    /\ scope = "ended"
    /\ scope' = "new"
    /\ repoSet' = FALSE
    /\ tempDir' = "None"
    /\ dirExists' = FALSE
    /\ remote' = {}
    /\ sparse' = {}
    /\ worktree' = {}
    /\ prior' = {}
    /\ ret' = Outcome("init", "None", FALSE, "None")
    /\ UNCHANGED <<localFile, processVars, loadVars, ns>>

\* ExercisesRepo.__enter__: the clone succeeds at some commit
EnterOk ==
    /\ pc = "idle"
    /\ UNCHANGED replVars
    /\ scope = "new"
    /\ \E r \in RemoteRepos : remote' = r
    /\ tempDir' = "live"
    /\ dirExists' = TRUE
    /\ repoSet' = TRUE
    /\ scope' = "in"
    /\ sparse' = {}
    /\ worktree' = {}
    /\ prior' = {}
    /\ ret' = Outcome("enter", "None", FALSE, "self")
    /\ UNCHANGED <<localFile, processVars, loadVars, ns>>

\* ExercisesRepo.__enter__ raises: TemporaryDirectory() itself fails, or
\* Repo.clone_from fails after the directory was made. The with statement
\* does not call __exit__ when __enter__ raises.
EnterFails ==
    /\ pc = "idle"
    /\ UNCHANGED replVars
    /\ scope = "new"
    /\ \E made \in BOOLEAN :
          /\ tempDir' = IF made THEN "live" ELSE "None"
          /\ dirExists' = made
          /\ ret' = Outcome("enter", "None", TRUE,
                            IF made THEN "clone_from" ELSE "TemporaryDirectory")
    /\ scope' = "ended"
    /\ UNCHANGED <<repoSet, remote, treeVars, localFile, processVars, loadVars,
                   ns>>

\* ExercisesRepo.__exit__: at the end of the with block (normal or by an
\* exception), or called directly by the caller. The outcome keeps what
\* __temp_dir was when it was called.
Exit ==
    /\ pc = "idle"
    /\ UNCHANGED replVars
    /\ IF ExitGuard(tempDir)
       THEN IF tempDir = "None"
            THEN \* None has no cleanup()
                 /\ ret' = Outcome("exit", tempDir, TRUE, "AttributeError")
                 /\ UNCHANGED <<tempDir, dirExists, remote, treeVars>>
            ELSE \* TemporaryDirectory.cleanup(): removes the tree if it is
                 \* there, and the clone with it
                 /\ tempDir' = "cleaned"
                 /\ dirExists' = FALSE
                 /\ remote' = {}
                 /\ sparse' = {}
                 /\ worktree' = {}
                 /\ prior' = {}
                 /\ ret' = Outcome("exit", tempDir, FALSE, "None")
       ELSE /\ ret' = Outcome("exit", tempDir, FALSE, "None")
            /\ UNCHANGED <<tempDir, dirExists, remote, treeVars>>
    /\ scope' = IF scope = "in" THEN "ended" ELSE scope
    /\ UNCHANGED <<repoSet, localFile, processVars, loadVars, ns>>

\* ExercisesRepo.checkout
Checkout(path) ==
    /\ pc = "idle"
    /\ UNCHANGED replVars
    /\ IF RepoUsable
       THEN /\ DoCheckout(path)
            /\ ret' = Outcome("checkout", path, FALSE, "None")
       ELSE /\ ret' = Outcome("checkout", path, TRUE, "repo")
            /\ UNCHANGED treeVars
    /\ UNCHANGED <<fetcherVars, localFile, processVars, loadVars, ns>>

\* ExercisesRepo.has_file
HasFile(path) ==
    /\ pc = "idle"
    /\ UNCHANGED replVars
    /\ IF RepoUsable
       THEN /\ DoCheckout(path)
            /\ ret' = Outcome("has_file", path, FALSE, PathExists(worktree', path))
       ELSE /\ ret' = Outcome("has_file", path, TRUE, "repo")
            /\ UNCHANGED treeVars
    /\ UNCHANGED <<fetcherVars, localFile, processVars, loadVars, ns>>

\* ExercisesRepo.fetch_file_contents
FetchFileContents(path, is_binary) ==
    /\ pc = "idle"
    /\ UNCHANGED replVars
    /\ IF RepoUsable
       THEN /\ DoCheckout(path)
            /\ ret' = IF CanOpen(worktree', path)
                      THEN Outcome("fetch_file_contents", path, FALSE,
                                   FileContents(path, is_binary))
                      ELSE Outcome("fetch_file_contents", path, TRUE, "FileNotFoundError")
       ELSE /\ ret' = Outcome("fetch_file_contents", path, TRUE, "repo")
            /\ UNCHANGED treeVars
    /\ UNCHANGED <<fetcherVars, localFile, processVars, loadVars, ns>>

\* ExercisesRepo.download_file; the local open() may fail
DownloadFile(path, is_binary) ==
    /\ pc = "idle"
    /\ UNCHANGED replVars
    /\ IF RepoUsable
       THEN /\ DoCheckout(path)
            /\ IF CanOpen(worktree', path)
               THEN \E writable \in BOOLEAN :
                       IF writable
                       THEN /\ localFile' = FileContents(path, is_binary)
                            /\ ret' = Outcome("download_file", path, FALSE, "None")
                       ELSE /\ ret' = Outcome("download_file", path, TRUE, "OSError")
                            /\ UNCHANGED localFile
               ELSE /\ ret' = Outcome("download_file", path, TRUE, "FileNotFoundError")
                    /\ UNCHANGED localFile
       ELSE /\ ret' = Outcome("download_file", path, TRUE, "repo")
            /\ UNCHANGED <<treeVars, localFile>>
    /\ UNCHANGED <<fetcherVars, processVars, loadVars, ns>>

(* ----------------------------- Namespace ------------------------------ *)

Binding(name, gen, kind) == [name |-> name, gen |-> gen, kind |-> kind]

Module(name, gen) == [name |-> name, gen |-> gen]

\* top-level functions a script may define, with the parameters each declares
FunctionNames == {<<"verify">>, <<"setup">>}

\* the params dictionaries the callers pass, by their keys
ParamChoices == {{}, {"repo_path", "unused"}, {"verbose", "unused"}}

\* inspect.signature(func).parameters
Declared(fname) == IF fname = <<"verify">> THEN {"repo_path", "verbose"} ELSE {"verbose"}

\* the declared parameters that have no default
Required(fname) == IF fname = <<"verify">> THEN {"repo_path"} ELSE {}

\* import statements a script may run: `import m` loads m's parents as well
ImportChoices == {{}, {<<"exercise_utils">>}, HelperModuleNames}

\* for mod in [key for key in sys.modules if key == "exercise_utils" or
\* key.startswith("exercise_utils.")]: del sys.modules[mod]
PurgeHelperModules(reg) == {m \in reg : ~IsHelperModule(m.name)}

\* a load without the purge before exec()
PreCleanSkipped(reg) == reg

\* the purge before exec(), after namespace = {}
PreClean(reg) == PurgeHelperModules(reg)

\* a load without the purge after exec()
PostCleanSkipped(reg, raised) == reg

\* the purge after exec() placed behind the try statement instead of in
\* its finally clause: it is skipped when exec() raised
PostCleanOnSuccess(reg, raised) == IF raised THEN reg ELSE PurgeHelperModules(reg)

\* the purge in the finally clause around exec(); raised: exec() raised
PostClean(reg, raised) == PurgeHelperModules(reg)

\* the statements with the purge moved behind the making of the package
LoadOrderPurgeLate == <<"fetch_script", "make_package", "pre_clean", "exec", "finally">>

\* the order of the statements of load_file_as_namespace
LoadOrder == <<"fetch_script", "pre_clean", "make_package", "exec", "finally">>

\* the statement after `step`
StepAfter(step) ==
    LoadOrder[(CHOOSE i \in 1..Len(LoadOrder) : LoadOrder[i] = step) + 1]

\* tempfile.TemporaryDirectory() of the load: its name is unique to the load
TmpName(n) == <<"tmp", n>>

\* sys.path.remove(entry)
PathRemove(path, entry) == SelectSeq(path, LAMBDA e : e # entry)

\* what `import name` binds: the module sys.modules holds under that name,
\* else a module made from the first package on sys.path
Resolve(reg, name, gen) ==
    IF \E m \in reg : m.name = name
    THEN CHOOSE m \in reg : m.name = name
    ELSE Module(name, gen)

\* the load's local variables, gone when the call is over
LocalsDropped ==
    /\ pc' = "idle"
    /\ loadPath' = <<"", "">>
    /\ helperIdx' = 1
    /\ building' = {}
    /\ imported' = {}
    /\ execRaised' = FALSE
    /\ log' = <<>>

\* the exception that leaves load_file_as_namespace, by its type and the
\* repository paths it carries: the assertion of the `repo` property, the
\* FileNotFoundError of open() on the path fetched last, or, from exec()
\* under try/finally with no except clause, the script's own exception
Thrown(why, steps) ==
    IF why = "exec"
    THEN [type |-> "script_exception", paths |-> {}]
    ELSE IF ~RepoUsable
    THEN [type |-> "AssertionError", paths |-> {}]
    ELSE [type |-> "FileNotFoundError", paths |-> {steps[Len(steps)][2]}]

\* an exception leaves load_file_as_namespace: nothing is bound by the
\* caller. The outcome keeps where it was raised, the exception, what the
\* script had imported and the steps taken.
LoadRaise(why, steps) ==
    /\ LocalsDropped
    /\ ret' = Outcome("load", loadPath, TRUE,
                      [why |-> why, error |-> Thrown(why, steps),
                       imported |-> imported, log |-> steps])
    /\ UNCHANGED <<ns, dontWriteBytecode>>

\* the call: sys.dont_write_bytecode = True
LoadBegin(path) ==
    /\ pc = "idle"
    /\ UNCHANGED replVars
    /\ loads < MaxLoads
    /\ loads' = loads + 1
    /\ loadPath' = path
    /\ dontWriteBytecode' = TRUE
    /\ pc' = LoadOrder[1]
    /\ ret' = Outcome("load_begin", path, FALSE, "None")
    /\ UNCHANGED <<fetcherVars, treeVars, localFile, registry, sysPath, helperIdx,
                   tmpdir, package, building, imported, execRaised, log, ns>>

\* py_file = exercises_repo.fetch_file_contents(file_path, False)
LoadFetchScript ==
    /\ pc = "fetch_script"
    /\ UNCHANGED replVars
    /\ LET steps == Append(log, <<"readFile", loadPath>>)
       IN  IF RepoUsable
           THEN /\ DoCheckout(loadPath)
                /\ IF CanOpen(worktree', loadPath)
                   THEN /\ pc' = StepAfter("fetch_script")
                        /\ log' = steps
                        /\ UNCHANGED <<loadPath, helperIdx, building, imported,
                                       execRaised, ns, dontWriteBytecode, ret>>
                   ELSE LoadRaise("script_fetch", steps)
           ELSE /\ LoadRaise("script_fetch", steps)
                /\ UNCHANGED treeVars
    /\ UNCHANGED <<fetcherVars, localFile, registry, sysPath, loads, tmpdir, package>>

\* namespace = {}, then the purge of the cached exercise_utils modules; the
\* log keeps the names it removed
LoadPreClean ==
    /\ pc = "pre_clean"
    /\ UNCHANGED replVars
    /\ building' = {}
    /\ registry' = PreClean(registry)
    /\ log' = Append(log, <<"purge", {m.name : m \in registry \ PreClean(registry)}>>)
    /\ pc' = StepAfter("pre_clean")
    /\ UNCHANGED <<fetcherVars, treeVars, localFile, sysPath, dontWriteBytecode,
                   loadPath, loads, helperIdx, tmpdir, package, imported, execRaised,
                   ns, ret>>

\* a loop that steps over every other filename
NextHelperSkips(idx) == idx + 2

\* for filename in EXERCISE_UTILS_FILES: the turn after turn idx
NextHelper(idx) == idx + 1

\* one turn of the loop over EXERCISE_UTILS_FILES inside the with block (the
\* first turn follows the making of tmpdir/exercise_utils); after the last,
\* sys.path.insert(0, tmpdir). A fetch that raises leaves the with block,
\* which removes the directory.
LoadFetchHelper ==
    /\ pc = "make_package"
    /\ UNCHANGED replVars
    /\ LET filename == EXERCISE_UTILS_FILES[helperIdx]
           path == HelperPath(filename)
           last == NextHelper(helperIdx) > Len(EXERCISE_UTILS_FILES)
           steps == Append(log, <<"readFile", path>>)
       IN  /\ IF RepoUsable
              THEN DoCheckout(path)
              ELSE UNCHANGED treeVars
           /\ IF RepoUsable /\ CanOpen(worktree', path)
              THEN /\ tmpdir' = TRUE
                   /\ package' = package \cup {filename}
                   /\ helperIdx' = IF last THEN 1 ELSE NextHelper(helperIdx)
                   /\ sysPath' = IF last THEN <<TmpName(loads)>> \o sysPath ELSE sysPath
                   /\ pc' = IF last THEN StepAfter("make_package") ELSE pc
                   /\ log' = steps
                   /\ UNCHANGED <<loadPath, building, imported, execRaised, ns,
                                  dontWriteBytecode, ret>>
              ELSE /\ tmpdir' = FALSE
                   /\ package' = {}
                   /\ LoadRaise("helper_fetch", steps)
                   /\ UNCHANGED sysPath
    /\ UNCHANGED <<fetcherVars, localFile, registry, loads>>

\* exec(py_file, namespace): the script's top-level code imports helper
\* modules, defines functions, and returns or raises at some point
LoadExec ==
    /\ pc = "exec"
    /\ UNCHANGED replVars
    /\ \E imp \in ImportChoices, defs \in SUBSET FunctionNames, raises \in BOOLEAN :
          LET mods == {Resolve(registry, name, loads) : name \in imp}
          IN  /\ registry' = registry \cup mods
              /\ imported' = imp
              /\ building' =
                    {Binding(<<"__builtins__">>, 0, "module")}
                    \cup {Binding(m.name, m.gen, "module") : m \in mods}
                    \cup {Binding(f, loads, "function") : f \in defs}
              /\ execRaised' = raises
    /\ log' = Append(log, <<"exec">>)
    /\ pc' = StepAfter("exec")
    /\ UNCHANGED <<fetcherVars, treeVars, localFile, sysPath, dontWriteBytecode,
                   loadPath, loads, helperIdx, tmpdir, package, ns, ret>>

\* a load that swallows the script's exception
ReraisedNever(raised) == FALSE

\* try/finally has no except clause: after the finally clause an exception
\* raised by exec() goes on to the caller
Reraised(raised) == raised

\* the finally clause, the end of the with block, and then either the
\* exception goes on to the caller or sys.dont_write_bytecode = False and
\* return cls(namespace)
LoadFinally ==
    /\ pc = "finally"
    /\ UNCHANGED replVars
    /\ sysPath' = PathRemove(sysPath, TmpName(loads))
    /\ registry' = PostClean(registry, execRaised)
    /\ tmpdir' = FALSE
    /\ package' = {}
    /\ IF Reraised(execRaised)
       THEN LoadRaise("exec", Append(log, <<"finally">>))
       ELSE /\ LocalsDropped
            /\ dontWriteBytecode' = FALSE
            /\ ns' = [held |-> TRUE, namespace |-> building]
            /\ ret' = Outcome("load", loadPath, FALSE,
                              [namespace |-> building, imported |-> imported,
                               log |-> Append(log, <<"finally">>)])
    /\ UNCHANGED <<fetcherVars, treeVars, localFile, loads>>

\* names the callers ask a namespace for
CallNames == FunctionNames \cup {<<"exercise_utils">>}

Lookup(namespace, name) == CHOOSE b \in namespace : b.name = name

\* sys.modules[name] = module, for each module of mods
Register(reg, mods) ==
    {m \in reg : ~\E n \in mods : n.name = m.name} \cup mods

\* what execute_function reports: whether the name was bound, whether the
\* function's body ran and with which keyword arguments, what came back,
\* and whether the call before it on this process found no function either
Call(found, ran, passed, result, again) ==
    [found |-> found, ran |-> ran, passed |-> passed, result |-> result,
     again |-> again]

\* the arguments of a call of execute_function
CallArgs(fname, params) == [name |-> fname, params |-> params]

PrevNotFound == ret.op = "execute_function" /\ ~ret.value.found

\* execute_function without the test at its head
NotBoundNever(namespace, fname) == FALSE

\* the test at the head of execute_function: function_name not in self.namespace
NotBound(namespace, fname) == ~\E b \in namespace : b.name = fname

\* params handed on as they are
ValidParamsAll(params, fname) == params

\* {k: v for k, v in params.items() if k in sig.parameters}, by its keys
ValidParams(params, fname) == params \cap Declared(fname)

\* a call that goes on with a required argument missing
MissingArgumentIgnored(fname, valid_params) == FALSE

\* func(**valid_params) raises TypeError when a parameter without a
\* default gets no argument
MissingArgument(fname, valid_params) == ~(Required(fname) \subseteq valid_params)

\* what the function bound to fname by load number gen returns for args
ReturnValue(fname, gen, args) == <<fname, gen, args>>

\* the body of a called function: it may put helper modules it holds into
\* sys.modules, and it returns or raises
RunFunction(fname, params, func, valid_params) ==
    \E mods \in ImportChoices, raises \in BOOLEAN :
       /\ registry' = Register(registry, {Module(n, func.gen) : n \in mods})
       /\ IF raises
          THEN /\ ret' = Outcome("execute_function", CallArgs(fname, params), TRUE,
                                 Call(TRUE, TRUE, valid_params, "Exception", FALSE))
               /\ UNCHANGED dontWriteBytecode
          ELSE /\ ret' = Outcome("execute_function", CallArgs(fname, params), FALSE,
                                 Call(TRUE, TRUE, valid_params,
                                      ReturnValue(fname, func.gen, valid_params), FALSE))
               /\ dontWriteBytecode' = FALSE

\* Namespace.execute_function; params: the keys of the params dictionary
ExecuteFunction(fname, params) ==
    /\ pc = "idle"
    /\ UNCHANGED replVars
    /\ ns.held
    /\ IF NotBound(ns.namespace, fname)
       THEN /\ dontWriteBytecode' = FALSE
            /\ ret' = Outcome("execute_function", CallArgs(fname, params), FALSE,
                              Call(FALSE, FALSE, {}, "None", PrevNotFound))
            /\ UNCHANGED registry
       ELSE IF ~\E b \in ns.namespace : b.name = fname
       THEN \* self.namespace[function_name]
            /\ ret' = Outcome("execute_function", CallArgs(fname, params), TRUE,
                              Call(FALSE, FALSE, {}, "KeyError", FALSE))
            /\ UNCHANGED <<registry, dontWriteBytecode>>
       ELSE LET func == Lookup(ns.namespace, fname)
                valid_params == ValidParams(params, fname)
            IN  IF func.kind # "function"
                   \/ MissingArgument(fname, valid_params)
                THEN \* inspect.signature of something not callable, or a
                     \* call that lacks a required argument
                     /\ ret' = Outcome("execute_function", CallArgs(fname, params), TRUE,
                                       Call(TRUE, FALSE, valid_params, "TypeError", FALSE))
                     /\ UNCHANGED <<registry, dontWriteBytecode>>
                ELSE RunFunction(fname, params, func, valid_params)
    /\ UNCHANGED <<fetcherVars, treeVars, localFile, sysPath, loadVars, ns>>

\* the default values the callers pass
DefaultValues == {Binding(<<"None">>, 0, "value"), Binding(<<"fallback">>, 0, "value")}

\* a lookup that answers with the default whatever is bound
GetDefault(namespace, variable_name, default_value) == default_value

\* self.namespace.get(variable_name, default_value)
Get(namespace, variable_name, default_value) ==
    IF \E b \in namespace : b.name = variable_name
    THEN Lookup(namespace, variable_name)
    ELSE default_value

\* Namespace.get_variable
GetVariable(name, default_value) ==
    /\ pc = "idle"
    /\ UNCHANGED replVars
    /\ ns.held
    /\ ret' = Outcome("get_variable", [name |-> name, default |-> default_value],
                      FALSE, Get(ns.namespace, name, default_value))
    /\ UNCHANGED <<fetcherVars, treeVars, localFile, processVars, loadVars, ns>>

(* --------------------------- GitMasteryREPL --------------------------- *)

GITMASTERY_COMMANDS == {"check", "download", "progress", "setup", "verify", "version"}

\* directories of the machine, by their components; the root is <<>>
Home == <<"home", "user">>

Dirs == {<<>>, Home, Home \o <<"work">>, Home \o <<"work", "exercise">>}

Parent(dir) == IF dir = <<>> THEN dir ELSE SubSeq(dir, 1, Len(dir) - 1)

\* os.chdir(os.path.expanduser(path)) from dir: the error it raises, if any,
\* and the working directory afterwards. Besides the directories there are
\* a directory the user may not enter and a plain file.
Chdir(dir, path) ==
    LET target == IF path = "~" THEN Home
                  ELSE IF path = "/" THEN <<>>
                  ELSE IF path = ".." THEN Parent(dir)
                  ELSE Append(dir, path)
    IN  IF path = "locked" THEN [error |-> "PermissionError", cwd |-> dir]
        ELSE IF path = "notes.txt" THEN [error |-> "NotADirectoryError", cwd |-> dir]
        ELSE IF target \in Dirs THEN [error |-> "None", cwd |-> target]
        ELSE [error |-> "FileNotFoundError", cwd |-> dir]

\* what the user gives cd
CdArgs == {"~", "/", "..", "work", "exercise", "missing", "locked", "notes.txt"}

\* input lines, as their words; the one word with a quote left open is it's
BareLines ==
    {<<>>, <<"cd">>, <<"help">>, <<"help", "check">>, <<"exit">>, <<"quit">>,
     <<"EOF">>, <<"ls">>, <<"echo", "it's">>, <<"check", "it's">>}
    \cup {<<"cd", path>> : path \in CdArgs}
    \cup {<<name>> : name \in GITMASTERY_COMMANDS}

Lines == BareLines \cup {<<"gitmastery">> \o line : line \in BareLines}

\* GitMasteryREPL.precmd: "gitmastery " at the head of the stripped line is
\* taken off; the word alone, with nothing after it, stays
Precmd(line) ==
    IF Len(line) > 1 /\ line[1] = "gitmastery" THEN Tail(line) ELSE line

\* cmd.Cmd.onecmd: the method that handles the line precmd returned
Handler(line) ==
    IF line = <<>> THEN "emptyline"
    ELSE IF line[1] \in {"cd", "help", "exit", "quit", "EOF"} THEN line[1]
    ELSE "default"

\* shlex.split(line) raises ValueError: No closing quotation
OpenQuote(line) == \E i \in 1..Len(line) : line[i] = "it's"

\* how a Git-Mastery subcommand may end
Endings == {"return", "ClickException", "Abort", "SystemExit", "Exception",
            "KeyboardInterrupt"}

\* cwd = os.path.basename(os.getcwd()) or os.getcwd()
Prompt(dir) == IF dir = <<>> THEN "/" ELSE dir[Len(dir)]

\* what the REPL remembers of a line: the line, its handler, how the handler
\* ended, and where the handler's command left the working directory
Handled(line, handler, ending, moved) ==
    [line |-> line, handler |-> handler, ending |-> ending, moved |-> moved]

\* GitMasteryREPL.postcmd and the test of cmdloop: the prompt is refreshed
\* and the loop goes on unless the handler returned true
PostCmd(stop) ==
    /\ prompt' = Prompt(cwd')
    /\ loop' = IF stop THEN "stopped" ELSE "running"

\* an exception leaves onecmd and cmdloop: repl() turns KeyboardInterrupt
\* into sys.exit(0), anything else ends the process with a traceback
LoopRaise(exception) ==
    /\ prompt' = prompt
    /\ loop' = IF exception = "KeyboardInterrupt" THEN "interrupted" ELSE "crashed"

\* a command runner without the finally clause
RestoreCwdSkipped(original_cwd, current) == current

\* finally: os.chdir(original_cwd)
RestoreCwd(original_cwd, current) == original_cwd

\* GitMasteryREPL.emptyline
EmptyLine(line) ==
    /\ loop = "running"
    /\ UNCHANGED appVars
    /\ Handler(Precmd(line)) = "emptyline"
    /\ cwd' = cwd
    /\ lastcmd' = Handled(line, "emptyline", "return", cwd)
    /\ PostCmd(FALSE)

\* GitMasteryREPL.do_cd: FileNotFoundError and PermissionError are caught
DoCd(line) ==
    /\ loop = "running"
    /\ UNCHANGED appVars
    /\ Handler(Precmd(line)) = "cd"
    /\ LET path == IF Len(Precmd(line)) = 1 THEN "~" ELSE Precmd(line)[2]
           done == Chdir(cwd, path)
       IN  /\ cwd' = done.cwd
           /\ lastcmd' = Handled(line, "do_cd", done.error, cwd)
           /\ IF done.error \in {"None", "FileNotFoundError", "PermissionError"}
              THEN PostCmd(FALSE)
              ELSE LoopRaise(done.error)

\* GitMasteryREPL.do_help
DoHelp(line) ==
    /\ loop = "running"
    /\ UNCHANGED appVars
    /\ Handler(Precmd(line)) = "help"
    /\ cwd' = cwd
    /\ lastcmd' = Handled(line, "do_help", "return", cwd)
    /\ PostCmd(FALSE)

\* GitMasteryREPL.do_exit, do_quit and do_EOF
DoExit(line) ==
    /\ loop = "running"
    /\ UNCHANGED appVars
    /\ Handler(Precmd(line)) \in {"exit", "quit", "EOF"}
    /\ cwd' = cwd
    /\ lastcmd' = Handled(line, "do_exit", "return", cwd)
    /\ PostCmd(TRUE)

\* GitMasteryREPL._run_gitmastery_command: the subcommand may change the
\* working directory and ends in one of Endings; the except clauses take
\* all of them but KeyboardInterrupt
RunGitmasteryCommand(line) ==
    \E moved \in Dirs, ending \in Endings :
       /\ cwd' = RestoreCwd(cwd, moved)
       /\ lastcmd' = Handled(line, "_run_gitmastery_command", ending, moved)
       /\ IF ending = "KeyboardInterrupt"
          THEN LoopRaise(ending)
          ELSE PostCmd(FALSE)

\* GitMasteryREPL._run_shell_command: the command runs in a process of its
\* own and returns zero or not, or subprocess.run raises, which is caught
RunShellCommand(line) ==
    \E ending \in {"zero", "nonzero", "Exception"} :
       /\ cwd' = cwd
       /\ lastcmd' = Handled(line, "_run_shell_command", ending, cwd)
       /\ PostCmd(FALSE)

\* GitMasteryREPL.default
Default(line) ==
    /\ loop = "running"
    /\ UNCHANGED appVars
    /\ Handler(Precmd(line)) = "default"
    /\ LET parts == Precmd(line)
       IN  IF OpenQuote(parts)
           THEN /\ cwd' = cwd
                /\ lastcmd' = Handled(line, "default", "ValueError", cwd)
                /\ LoopRaise("ValueError")
           ELSE IF parts[1] \in GITMASTERY_COMMANDS
           THEN RunGitmasteryCommand(line)
           ELSE RunShellCommand(line)

(* --------------------------- the process ------------------------------ *)

Init ==
    /\ scope = "new"
    /\ repoSet = FALSE
    /\ tempDir = "None"
    /\ dirExists = FALSE
    /\ remote = {}
    /\ sparse = {}
    /\ worktree = {}
    /\ prior = {}
    /\ localFile = <<"absent">>
    /\ registry = {Module(<<"os">>, 0)}
    /\ sysPath = << <<"site-packages", 0>> >>
    /\ dontWriteBytecode = FALSE
    /\ pc = "idle"
    /\ loadPath = <<"", "">>
    /\ loads = 0
    /\ helperIdx = 1
    /\ tmpdir = FALSE
    /\ package = {}
    /\ building = {}
    /\ imported = {}
    /\ execRaised = FALSE
    /\ ns = [held |-> FALSE, namespace |-> {}]
    /\ log = <<>>
    /\ ret = Outcome("start", "None", FALSE, "None")
    /\ cwd = Home \o <<"work">>
    /\ loop = "running"
    /\ prompt = Prompt(cwd)
    /\ lastcmd = Handled(<<>>, "start", "return", cwd)

\* a session's life: construction, the with block's entry and exit
Lifecycle ==
    \/ NewFetcher
    \/ EnterOk
    \/ EnterFails
    \/ Exit

\* callers that use the repository directly
NextFetch ==
    \/ Lifecycle
    \/ \E path \in Paths : Checkout(path)
    \/ \E path \in Paths : HasFile(path)
    \/ \E path \in Paths, is_binary \in BOOLEAN : FetchFileContents(path, is_binary)
    \/ \E path \in Paths, is_binary \in BOOLEAN : DownloadFile(path, is_binary)

\* callers that load scripts through the repository and use the namespaces
Next ==
    \/ Lifecycle
    \/ \E path \in ScriptPaths : LoadBegin(path)
    \/ LoadFetchScript
    \/ LoadPreClean
    \/ LoadFetchHelper
    \/ LoadExec
    \/ LoadFinally
    \/ \E fname \in CallNames, params \in ParamChoices : ExecuteFunction(fname, params)
    \/ \E name \in CallNames, default_value \in DefaultValues :
          GetVariable(name, default_value)

Spec == Init /\ [][Next]_vars

SpecFetch == Init /\ [][NextFetch]_vars

\* the user at the prompt of the interactive shell
NextRepl ==
    \/ \E line \in Lines : EmptyLine(line)
    \/ \E line \in Lines : DoCd(line)
    \/ \E line \in Lines : DoHelp(line)
    \/ \E line \in Lines : DoExit(line)
    \/ \E line \in Lines : Default(line)

SpecRepl == Init /\ [][NextRepl]_vars

(* ------------------------ checked properties -------------------------- *)

NoHelperModules(reg) == \A m \in reg : ~IsHelperModule(m.name)

\* the last operation was a load, and it returned a namespace
LoadReturned == ret.op = "load" /\ ~ret.raised

\* the last operation was a load, and it raised at `why`
LoadFailedAt(why) == ret.op = "load" /\ ret.raised /\ ret.value.why = why

\* the steps of the load in progress, or of the load that has just ended
Steps == IF ret.op = "load" THEN ret.value.log ELSE log

IsHelperFetch(step) == step[1] = "readFile" /\ step[2][1] = "exercise_utils"

IsScriptFetch(step) == step[1] = "readFile" /\ step[2][1] # "exercise_utils"

PurgedBefore(i) == \E j \in 1..(i - 1) : Steps[j][1] = "purge"

\* C1: at the moment any load returns a namespace, sys.modules holds no
\* module named exercise_utils or exercise_utils.<something>.
C1_RegistryCleanOnReturn == LoadReturned => NoHelperModules(registry)

\* a second or later load returned, and its script had imported helper modules
C1_Witness == LoadReturned /\ loads >= 2 /\ ret.value.imported # {}

\* C2: when the script's top-level code raises, load raises to its caller
\* without binding a namespace (the caller's namespace is what it was), and
\* sys.modules holds no helper module afterwards, the ones the script
\* imported before it raised included.
C2_PurgeWhenScriptRaises ==
    /\ [](LoadFailedAt("exec") => NoHelperModules(registry))
    /\ [][(pc = "finally" /\ execRaised) => (ns' = ns /\ ret'.raised)]_vars

\* a load failed in the script, after the script had imported helper modules
C2_Witness == LoadFailedAt("exec") /\ ret.value.imported # {}

\* C3 (as claimed): whenever load leaves by an exception, whatever step
\* raised it, sys.modules holds no helper module, the load's temporary
\* directory is gone and sys.path does not hold it.
C3_CleanupOnEveryFailure ==
    (ret.op = "load" /\ ret.raised) =>
        /\ NoHelperModules(registry)
        /\ ~tmpdir
        /\ \A i \in 1..Len(sysPath) : sysPath[i][1] # "tmp"

\* C4: when the script of any load starts to run, sys.modules holds no
\* helper module (none left by an earlier load or by a function called in
\* between) and the dictionary it fills is empty; every binding of the
\* namespace a load returns was made by the process or by that very load.
C4_NoLeakAcrossLoads ==
    /\ pc = "exec" => (NoHelperModules(registry) /\ building = {})
    /\ LoadReturned => \A b \in ret.value.namespace : b.gen \in {0, loads}

\* a second or later load returned a namespace with imported helper modules,
\* after its purge had removed helper modules that were registered before it
C4_Witness ==
    /\ LoadReturned
    /\ loads >= 2
    /\ ret.value.imported # {}
    /\ \E i \in 1..Len(Steps) : Steps[i][1] = "purge" /\ Steps[i][2] # {}

CheckoutOps == {"checkout", "has_file", "fetch_file_contents", "download_file"}

\* the last operation checked a path out inside the with block
CheckedOut == scope = "in" /\ ret.op \in CheckoutOps

\* C6 (as claimed): once a with block over the repository has ended, by
\* its normal end, by an exception inside it, or by __enter__ raising after
\* the directory was made, the temporary working directory is not on disk.
C6_NoDirectoryAfterBlock == scope = "ended" => ~dirExists

\* C7: __exit__ never raises and leaves no temporary working directory,
\* whatever it was called on: a directory in use, one already cleaned up
\* (a second call), one left by a failed __enter__, or none at all.
C7_ExitIdempotent == ret.op = "exit" => (~ret.raised /\ ~dirExists)

\* __exit__ has been called on a repository it had already cleaned up
C7_Witness == ret.op = "exit" /\ ret.arg = "cleaned" /\ ~ret.raised

\* C8: inside the with block, has_file of a path the cloned commit does not
\* hold returns False and does not raise, whatever was checked out before.
C8_HasFileAbsent ==
    (scope = "in" /\ ret.op = "has_file" /\ ret.arg \notin remote) =>
        (~ret.raised /\ ret.value = FALSE)

\* has_file was asked for a path the remote lacks, right after another path,
\* which the remote holds, had been checked out
C8_Witness ==
    /\ scope = "in"
    /\ ret.op = "has_file"
    /\ ret.arg \notin remote
    /\ prior # {}
    /\ prior \subseteq remote
    /\ ~ret.raised

C10_NotFoundReturnsNone ==
    /\ [](ret.op = "execute_function" =>
             (~ret.value.found =>
                 (~ret.raised /\ ~ret.value.ran /\ ret.value.result = "None")))
    /\ [][PrevNotFound' => (ns' = ns /\ registry' = registry)]_vars

\* execute_function found no function twice in a row
C10_Witness ==
    /\ ret.op = "execute_function"
    /\ ~ret.value.found
    /\ ret.value.again
    /\ ~ret.raised

\* the last operation was execute_function with the name of a function the
\* namespace binds
CalledFunction ==
    /\ ret.op = "execute_function"
    /\ ret.value.found
    /\ ret.arg.name \in FunctionNames

\* C11: when the name is bound to a function, execute_function calls it with
\* exactly the entries of params whose keys the function declares; when
\* these cover the required parameters the function is called, and what it
\* returns is returned as it is.
C11_FilteredCall ==
    CalledFunction =>
        /\ ret.value.passed = ret.arg.params \cap Declared(ret.arg.name)
        /\ (Required(ret.arg.name) \subseteq ret.arg.params) => ret.value.ran
        /\ (ret.value.ran /\ ~ret.raised) =>
              ret.value.result =
                 ReturnValue(ret.arg.name, Lookup(ns.namespace, ret.arg.name).gen,
                             ret.value.passed)

\* a function was called with a params dictionary that held a key it does
\* not declare, and returned
C11_Witness ==
    /\ CalledFunction
    /\ ret.value.ran
    /\ ~ret.raised
    /\ ret.arg.params \ Declared(ret.arg.name) # {}
    /\ ret.value.passed # {}

\* C12: a bound function called without one of its required parameters, or
\* whose body raises, makes execute_function raise and not return None;
\* a name that is not bound makes it return None and not raise.
C12_AbsenceIsNotFailure ==
    ret.op = "execute_function" =>
        /\ (CalledFunction /\ ~(Required(ret.arg.name) \subseteq ret.arg.params)) =>
              (ret.raised /\ ~ret.value.ran)
        /\ ret.raised => (ret.value.found /\ ret.value.result \in {"TypeError", "Exception"})
        /\ ~ret.value.found => (~ret.raised /\ ret.value.result = "None")

\* execute_function raised because a required parameter was not in params
C12_Witness ==
    /\ CalledFunction
    /\ ret.raised
    /\ ~ret.value.ran
    /\ ~(Required(ret.arg.name) \subseteq ret.arg.params)

\* C13: when the script's top-level code raises, what load raises to its
\* caller is a ScriptExecutionFailure that carries the path of the script.
C13_ExecFailureCarriesPath ==
    LoadFailedAt("exec") =>
        /\ ret.value.error.type = "ScriptExecutionFailure"
        /\ ret.arg \in ret.value.error.paths

\* a read of a file the checkout did not materialise, or a read outside an
\* entered session, raised
ReadFailed(op) ==
    /\ ret.op = op
    /\ ret.raised
    /\ ret.value \in {"FileNotFoundError", "repo"}

\* C14: fetch_file_contents raises whenever the path is not on disk after
\* the checkout, download_file raises in the same cases, and a download_file
\* that raises because that read failed leaves the destination as it was,
\* neither created nor written.
C14_MissingPathFails ==
    [][/\ (ret'.op \in {"fetch_file_contents", "download_file"}
               /\ ret'.arg \notin worktree')
           => ret'.raised
       /\ ReadFailed("download_file")' => localFile' = localFile]_vars

\* download_file raised on a path the remote lacks while the destination
\* held the content of an earlier download
C14_Witness ==
    /\ ReadFailed("download_file")
    /\ scope = "in"
    /\ ret.arg \notin remote
    /\ localFile # <<"absent">>

\* C15: get_variable returns the bound value when the name is bound and
\* the default it was given otherwise, never raises, and leaves the
\* namespace, sys.modules and sys.path as they were.
C15_PureLookup ==
    [][ret'.op = "get_variable" =>
          /\ ~ret'.raised
          /\ ret'.value =
                IF \E b \in ns.namespace : b.name = ret'.arg.name
                THEN CHOOSE b \in ns.namespace : b.name = ret'.arg.name
                ELSE ret'.arg.default
          /\ ns' = ns
          /\ registry' = registry
          /\ sysPath' = sysPath]_vars

\* get_variable answered with a module the script had bound, the helper
\* modules being purged from sys.modules
C15_Witness ==
    /\ ret.op = "get_variable"
    /\ ret.value \in ns.namespace
    /\ ret.value # ret.arg.default
    /\ ret.value.kind = "module"
    /\ NoHelperModules(registry)

\* C16: a load that fails binds no namespace: the caller holds what it
\* held before, and no namespace at all if none was loaded; the bindings of
\* a loaded namespace change only when a later load returns, never by
\* get_variable or by an execute_function that finds no function.
C16_LoadedOrFailed ==
    [][/\ (pc = "finally" /\ execRaised /\ pc' = "idle")
           => (ret'.op = "load" /\ ret'.raised /\ ns' = ns)
       /\ (ret'.op = "load" /\ ret'.raised) => ns' = ns
       /\ (ret'.op = "get_variable" \/ PrevNotFound') => ns' = ns
       /\ ns' # ns => (LoadReturned' /\ ns'.held /\ ns'.namespace = ret'.value.namespace)
       /\ ~ns.held => ret'.op \notin {"execute_function", "get_variable"}]_vars

\* the script raised in the third load of a process whose caller holds the
\* namespace of an earlier load, functions included
C16_Witness ==
    /\ LoadFailedAt("exec")
    /\ ns.held
    /\ loads = 3
    /\ \E b \in ns.namespace : b.kind = "function" /\ b.gen < loads

\* the fetches of helper files among the steps of a load, in their order
HelperFetches == SelectSeq(Steps, IsHelperFetch)

\* the load reached exec()
Executed == \E i \in 1..Len(Steps) : Steps[i][1] = "exec"

\* C17: every load fetches the files of EXERCISE_UTILS_FILES itself, once
\* each and in the order of the list, after the fetch of the script and
\* before exec(); exec() runs only when all of them were fetched and
\* written, so a load that lacks a helper file fails without running the
\* script.
C17_HelpersFetchedAnew ==
    /\ Len(HelperFetches) <= Len(EXERCISE_UTILS_FILES)
    /\ \A i \in 1..Len(HelperFetches) :
          HelperFetches[i][2] = HelperPath(EXERCISE_UTILS_FILES[i])
    /\ \A i \in 1..Len(Steps) :
          IsHelperFetch(Steps[i]) =>
             /\ \E j \in 1..(i - 1) : IsScriptFetch(Steps[j])
             /\ ~\E j \in 1..(i - 1) : Steps[j][1] = "exec"
    /\ Executed => Len(HelperFetches) = Len(EXERCISE_UTILS_FILES)
    /\ pc = "exec" =>
          package = {EXERCISE_UTILS_FILES[i] : i \in 1..Len(EXERCISE_UTILS_FILES)}
    /\ LoadFailedAt("helper_fetch") => ~Executed

\* a load after the first returned a namespace, having fetched every helper
\* file again
C17_Witness ==
    /\ LoadReturned
    /\ loads >= 2
    /\ Len(HelperFetches) = Len(EXERCISE_UTILS_FILES)

\* C18: when load ends, by returning a namespace or by raising,
\* sys.dont_write_bytecode is False again.
C18_FlagOffOnEveryExit == ret.op = "load" => ~dontWriteBytecode

\* the line handled last was a Git-Mastery subcommand
RanSubcommand == lastcmd.handler = "_run_gitmastery_command"

\* C19: when a Git-Mastery subcommand run by the REPL ends, by returning or
\* by ClickException, Abort, SystemExit or another Exception, the working
\* directory is the one the subcommand started in; the working directory
\* changes from one command to the next only by cd.
C19_CwdRestored ==
    [][/\ RanSubcommand' => cwd' = cwd
       /\ cwd' # cwd => lastcmd'.handler = "do_cd"]_vars

\* after a cd, a subcommand left the working directory somewhere else and
\* raised an Exception
C19_Witness ==
    /\ RanSubcommand
    /\ lastcmd.ending = "Exception"
    /\ lastcmd.moved # cwd
    /\ cwd = Home
    /\ loop = "running"

\* C20: the command loop ends only on exit, quit or EOF, with or without
\* the gitmastery prefix; every other line, whatever its handler does short
\* of an interrupt from the keyboard, leaves the loop running.
C20_StopsOnlyOnExit ==
    (loop # "running" /\ lastcmd.ending # "KeyboardInterrupt") =>
        Handler(Precmd(lastcmd.line)) \in {"exit", "quit", "EOF"}

====
